---- MODULE Spec2Model ----
(***************************************************************************)
(* redb-bincode: a typed (bincode) layer over redb's raw byte tables.      *)
(* Keys and values are unsigned integers encoded with BINCODE_CONFIG       *)
(* (big endian, variable-length integers).  The raw table is a set of      *)
(* <<key bytes, value bytes>> rows iterated in SortKey order.              *)
(***************************************************************************)
EXTENDS Integers, Sequences, FiniteSets, TLC

\* ---------------------------------------------------------------- bounds
MaxEntries == 3          \* rows a raw table may hold
MaxPos == 3              \* largest start / end handed to get_many
MaxValueCalls == 2       \* value() calls made on one guard

TableNames == {"t"}
Keys == {2, 300}         \* typed keys K (u32)
Vals == {7, 251}         \* typed values V (u32)
BadBytes == <<255>>      \* a byte string that decodes as neither K nor V
TrailBytes == <<2, 0>>   \* decodes to 2: bytes after the value are ignored
RawKeys == {BadBytes, TrailBytes}  \* key bytes written through as_raw_mut
RawVals == {BadBytes}    \* value bytes written through as_raw_mut
Preds == {"all", "none", "small_key", "small_val"}

\* ---------------------------------------------------------------- codec
\* bincode varint, big endian: one byte below 251, else a marker byte
\* (251 = u16, 252 = u32) followed by the big-endian integer.
Encode(n) ==
    IF n < 251 THEN <<n>>
    ELSE IF n < 65536 THEN <<251, n \div 256, n % 256>>
    ELSE <<252, (n \div 16777216) % 256, (n \div 65536) % 256,
                (n \div 256) % 256, n % 256>>

\* (mutant) decoding with a little-endian configuration
Decode_LittleEndian(b) ==
    IF Len(b) = 0 THEN [ok |-> FALSE, val |-> 0]
    ELSE IF b[1] < 251 THEN [ok |-> TRUE, val |-> b[1]]
    ELSE IF b[1] = 251 /\ Len(b) >= 3 THEN [ok |-> TRUE, val |-> b[3] * 256 + b[2]]
    ELSE [ok |-> FALSE, val |-> 0]

\* bincode::decode_from_slice for u32: trailing bytes are not an error.
Decode(b) ==
    IF Len(b) = 0 THEN [ok |-> FALSE, val |-> 0]
    ELSE IF b[1] < 251 THEN [ok |-> TRUE, val |-> b[1]]
    ELSE IF b[1] = 251 THEN
        IF Len(b) >= 3 THEN [ok |-> TRUE, val |-> b[2] * 256 + b[3]]
        ELSE [ok |-> FALSE, val |-> 0]
    ELSE IF b[1] = 252 THEN
        IF Len(b) >= 5
        THEN [ok |-> TRUE,
              val |-> b[2] * 16777216 + b[3] * 65536 + b[4] * 256 + b[5]]
        ELSE [ok |-> FALSE, val |-> 0]
    ELSE [ok |-> FALSE, val |-> 0]

\* bincode::encode_into_std_write(x, buf, ..): appends to buf, returns the
\* number of bytes written.
EncodeIntoStdWrite(x, buf) == [buf |-> buf \o Encode(x), size |-> Len(Encode(x))]

\* &buf[..size]
Slice(buf, size) == SubSeq(buf, 1, size)

\* (mutant) the key buffer is not cleared after use
ClearKeyBuf_Keep(buf) == buf

\* buf.clear() at the end of with_encode_key_buf
ClearKeyBuf(buf) == <<>>

\* buf.clear() at the end of with_encode_value_buf
ClearValueBuf(buf) == <<>>

\* AccessGuard::value on an optional guard (<<>> = None, <<bytes>> = Some)
GuardValue(g) == Decode(g[1])

\* ---------------------------------------------------------------- order
\* SortKey<Lexicographical>::compare: byte-wise lexicographic order
RECURSIVE LexLess(_, _)
LexLess(a, b) ==
    IF Len(b) = 0 THEN FALSE
    ELSE IF Len(a) = 0 THEN TRUE
    ELSE IF a[1] # b[1] THEN a[1] < b[1]
    ELSE LexLess(Tail(a), Tail(b))

\* ---------------------------------------------------------------- raw table
NoTable == [exists |-> FALSE, rows |-> {}]
EmptyDb == [n \in TableNames |-> NoTable]

\* (mutant) open_table binds a strategy that orders the other way round
TableOrder_Reversed(a, b) == LexLess(b, a)

\* the order of the key bytes of a table got from open_table: the
\* strategy it binds is sort::Lexicographical
TableOrder(a, b) == LexLess(a, b)

\* redb iter(): the rows in ascending SortKey order
RECURSIVE RawIter(_)
RawIter(rows) ==
    IF rows = {} THEN <<>>
    ELSE LET m == CHOOSE r \in rows : \A o \in rows : o = r \/ TableOrder(r[1], o[1])
         IN <<m>> \o RawIter(rows \ {m})

\* redb get(): the value bytes stored under kb, as an option
RawGet(rows, kb) ==
    IF \E r \in rows : r[1] = kb
    THEN <<(CHOOSE r \in rows : r[1] = kb)[2]>>
    ELSE <<>>

\* redb insert(): upsert, returning the previous value bytes
RawInsert(rows, kb, vb) ==
    [rows |-> {r \in rows : r[1] # kb} \cup {<<kb, vb>>}, prev |-> RawGet(rows, kb)]

\* redb remove(): delete, returning the removed value bytes
RawRemove(rows, kb) ==
    [rows |-> {r \in rows : r[1] # kb}, prev |-> RawGet(rows, kb)]

\* ---------------------------------------------------------------- typed table
\* the caller's predicate over a decoded (key, value) pair
Pred(p, k, v) ==
    CASE p = "all" -> TRUE
      [] p = "none" -> FALSE
      [] p = "small_key" -> k < 251
      [] p = "large_key" -> k >= 251
      [] OTHER -> v < 251

\* (mutant) get decodes the value it found and fails when it does not decode
TableGet_Eager(rows, key, kbuf, io) ==
    LET g == RawGet(rows, Encode(key))
    IN [outcome |-> IF ~io THEN "err"
                    ELSE IF g # <<>> /\ ~Decode(g[1]).ok THEN "decode_err"
                    ELSE "ok",
        guard |-> IF io /\ (g = <<>> \/ Decode(g[1]).ok) THEN g ELSE <<>>,
        keyBuf |-> <<>>]

\* Table::get / ReadOnlyTable::get: encode the key into the key buffer,
\* look up buf[..size], clear the buffer.  io = FALSE is a storage error.
TableGet(rows, key, kbuf, io) ==
    LET e == EncodeIntoStdWrite(key, kbuf)
    IN [outcome |-> IF io THEN "ok" ELSE "err",
        guard |-> IF io THEN RawGet(rows, Slice(e.buf, e.size)) ELSE <<>>,
        keyBuf |-> ClearKeyBuf(e.buf)]

\* (mutant) the guard is taken after the upsert: it holds the new bytes
TableInsert_GuardAfter(rows, key, value, kbuf, vbuf, io) ==
    [outcome |-> IF io THEN "ok" ELSE "err",
     rows |-> IF io THEN RawInsert(rows, Encode(key), Encode(value)).rows ELSE rows,
     guard |-> IF io THEN RawGet(RawInsert(rows, Encode(key), Encode(value)).rows,
                                 Encode(key))
               ELSE <<>>,
     keyBuf |-> <<>>,
     valueBuf |-> <<>>]

\* Table::insert: encode key and value into their buffers, upsert, return
\* the previous value bytes, clear both buffers.
TableInsert(rows, key, value, kbuf, vbuf, io) ==
    LET ke == EncodeIntoStdWrite(key, kbuf)
        ve == EncodeIntoStdWrite(value, vbuf)
        r == RawInsert(rows, Slice(ke.buf, ke.size), Slice(ve.buf, ve.size))
    IN [outcome |-> IF io THEN "ok" ELSE "err",
        rows |-> IF io THEN r.rows ELSE rows,
        guard |-> IF io THEN r.prev ELSE <<>>,
        keyBuf |-> ClearKeyBuf(ke.buf),
        valueBuf |-> ClearValueBuf(ve.buf)]

\* (mutant) the value is returned but the row is left in place
TableRemove_Peek(rows, key, kbuf, io) ==
    [outcome |-> IF io THEN "ok" ELSE "err",
     rows |-> rows,
     guard |-> IF io THEN RawGet(rows, Encode(key)) ELSE <<>>,
     keyBuf |-> <<>>]

\* Table::remove: encode the key, delete, return the removed value bytes.
TableRemove(rows, key, kbuf, io) ==
    LET ke == EncodeIntoStdWrite(key, kbuf)
        r == RawRemove(rows, Slice(ke.buf, ke.size))
    IN [outcome |-> IF io THEN "ok" ELSE "err",
        rows |-> IF io THEN r.rows ELSE rows,
        guard |-> IF io THEN r.prev ELSE <<>>,
        keyBuf |-> ClearKeyBuf(ke.buf)]

\* (mutant) a failed decode ends the loop and the entries read so far
\* are returned
IterDecodeErr_Partial(res, calls) == [ok |-> TRUE, res |-> res, calls |-> calls]

\* the `?` on a failed decode inside get_many / get_many_where: the call
\* returns Err, the vector built so far is dropped
IterDecodeErr(res, calls) == [ok |-> FALSE, res |-> <<>>, calls |-> calls]

\* (mutant) the loop stops after position end instead of before it
RECURSIVE GetManyLoop_InclusiveEnd(_, _, _, _, _, _, _)
GetManyLoop_InclusiveEnd(it, i, start, end, p, res, calls) ==
    IF it = <<>> THEN [ok |-> TRUE, res |-> res, calls |-> calls]
    ELSE IF start >= 0 /\ i < start
        THEN GetManyLoop_InclusiveEnd(Tail(it), i + 1, start, end, p, res, calls)
    ELSE IF end >= 0 /\ i > end THEN [ok |-> TRUE, res |-> res, calls |-> calls]
    ELSE LET key == Decode(Head(it)[1])
             value == Decode(Head(it)[2])
             kv == <<key.val, value.val>>
         IN IF ~key.ok \/ ~value.ok THEN IterDecodeErr(res, calls)
            ELSE GetManyLoop_InclusiveEnd(Tail(it), i + 1, start, end, p,
                             IF Pred(p, key.val, value.val) THEN Append(res, kv) ELSE res,
                             Append(calls, kv))

\* (mutant) the position advances only on entries the predicate accepts
RECURSIVE GetManyLoop_CountMatches(_, _, _, _, _, _, _)
GetManyLoop_CountMatches(it, i, start, end, p, res, calls) ==
    IF it = <<>> THEN [ok |-> TRUE, res |-> res, calls |-> calls]
    ELSE IF start >= 0 /\ i < start
        THEN GetManyLoop_CountMatches(Tail(it), i + 1, start, end, p, res, calls)
    ELSE IF end >= 0 /\ i >= end THEN [ok |-> TRUE, res |-> res, calls |-> calls]
    ELSE LET key == Decode(Head(it)[1])
             value == Decode(Head(it)[2])
             kv == <<key.val, value.val>>
             hit == Pred(p, key.val, value.val)
         IN IF ~key.ok \/ ~value.ok THEN IterDecodeErr(res, calls)
            ELSE GetManyLoop_CountMatches(Tail(it), IF hit THEN i + 1 ELSE i,
                             start, end, p,
                             IF hit THEN Append(res, kv) ELSE res,
                             Append(calls, kv))

\* (mutant) every entry is decoded before its position is looked at
RECURSIVE GetManyLoop_DecodeFirst(_, _, _, _, _, _, _)
GetManyLoop_DecodeFirst(it, i, start, end, p, res, calls) ==
    IF it = <<>> THEN [ok |-> TRUE, res |-> res, calls |-> calls]
    ELSE LET key == Decode(Head(it)[1])
             value == Decode(Head(it)[2])
             kv == <<key.val, value.val>>
         IN IF ~key.ok \/ ~value.ok THEN IterDecodeErr(res, calls)
            ELSE IF start >= 0 /\ i < start
                THEN GetManyLoop_DecodeFirst(Tail(it), i + 1, start, end, p, res, calls)
            ELSE IF end >= 0 /\ i >= end
                THEN [ok |-> TRUE, res |-> res, calls |-> calls]
            ELSE GetManyLoop_DecodeFirst(Tail(it), i + 1, start, end, p,
                             IF Pred(p, key.val, value.val) THEN Append(res, kv) ELSE res,
                             Append(calls, kv))

\* the loop of get_many_where over the rest of the iterator (it), at
\* ordinal i; start / end = -1 is None.  calls records the entries the
\* predicate was invoked on.  get_many is the same loop without the
\* predicate.
RECURSIVE GetManyLoop(_, _, _, _, _, _, _)
GetManyLoop(it, i, start, end, p, res, calls) ==
    IF it = <<>> THEN [ok |-> TRUE, res |-> res, calls |-> calls]
    ELSE IF start >= 0 /\ i < start
        THEN GetManyLoop(Tail(it), i + 1, start, end, p, res, calls)
    ELSE IF end >= 0 /\ i >= end THEN [ok |-> TRUE, res |-> res, calls |-> calls]
    ELSE LET key == Decode(Head(it)[1])
             value == Decode(Head(it)[2])
             kv == <<key.val, value.val>>
         IN IF ~key.ok \/ ~value.ok THEN IterDecodeErr(res, calls)
            ELSE GetManyLoop(Tail(it), i + 1, start, end, p,
                             IF Pred(p, key.val, value.val) THEN Append(res, kv) ELSE res,
                             Append(calls, kv))

\* ReadOnlyTable::get_many
TableGetMany(rows, start, end) ==
    GetManyLoop(RawIter(rows), 0, start, end, "all", <<>>, <<>>)

\* ReadOnlyTable::get_many_where
TableGetManyWhere(rows, start, end, p) ==
    GetManyLoop(RawIter(rows), 0, start, end, p, <<>>, <<>>)

\* the closure handed to extract_if meeting bytes that do not decode:
\* decode_from_slice(..).unwrap() panics
ExtractDecodeFail(rows, res) == [outcome |-> "panic", rows |-> rows, res |-> <<>>]

\* the second decode of an extracted pair (the map closure): Some((k, v))
\* when both decode, None otherwise
ExtractedPair(kb, vb) ==
    IF Decode(kb).ok /\ Decode(vb).ok
    THEN <<<<Decode(kb).val, Decode(vb).val>>>>
    ELSE <<>>

\* Table::remove_where: extract_if visits every row in iteration order,
\* decodes it (unwrap), asks the predicate, removes the row when it says
\* true; the removed rows are decoded again and collected.
RECURSIVE RemoveWhereLoop(_, _, _, _)
RemoveWhereLoop(it, p, rows, res) ==
    IF it = <<>> THEN [outcome |-> "ok", rows |-> rows, res |-> res]
    ELSE LET key == Decode(Head(it)[1])
             value == Decode(Head(it)[2])
         IN IF ~key.ok \/ ~value.ok THEN ExtractDecodeFail(rows, res)
            ELSE IF Pred(p, key.val, value.val)
                 THEN RemoveWhereLoop(Tail(it), p, rows \ {Head(it)},
                          Append(res, ExtractedPair(Head(it)[1], Head(it)[2])))
                 ELSE RemoveWhereLoop(Tail(it), p, rows, res)

\* (mutant) the matching pairs are returned but left in the table
TableRemoveWhere_KeepRows(rows, p) ==
    [RemoveWhereLoop(RawIter(rows), p, rows, <<>>) EXCEPT !.rows = rows]

TableRemoveWhere(rows, p) == RemoveWhereLoop(RawIter(rows), p, rows, <<>>)

\* ---------------------------------------------------------------- state
VARIABLES
    db,        \* the committed tables of the storage file
    wtx,       \* the write transaction: [open, tables (its working copy)]
    rtx,       \* the read transaction R: [open, tables (its snapshot)]
    keyBuf,    \* the thread's ENCODE_KEY buffer
    valueBuf,  \* the thread's ENCODE_VALUE buffer
    last       \* the call that ran last, its arguments and what it returned

vars == <<db, wtx, rtx, keyBuf, valueBuf, last>>

NoTx == [open |-> FALSE, tables |-> EmptyDb]

Call(op) ==
    [op |-> op, tbl |-> "t", k |-> 0, v |-> 0, start |-> -1, end |-> -1,
     pred |-> "all", outcome |-> "ok", guard |-> <<>>, res |-> <<>>,
     calls |-> <<>>, nested |-> FALSE, aliased |-> FALSE, uses |-> 0]

Positions == (0 .. MaxPos) \cup {-1}

\* Database::from / Database::new: a fresh storage file, no transaction
Init ==
    /\ db = EmptyDb
    /\ wtx = NoTx
    /\ rtx = NoTx
    /\ keyBuf = <<>>
    /\ valueBuf = <<>>
    /\ last = Call("new")

\* Database::new on some other path: create(name).unwrap() panics when the
\* file cannot be created; the panic unwinds the thread and drops its
\* write transaction.  The handle of a created file is not followed.
DatabaseNew(created) ==
    /\ wtx' = IF created THEN wtx ELSE NoTx
    /\ last' = [Call("database_new") EXCEPT !.outcome = IF created THEN "ok" ELSE "panic"]
    /\ UNCHANGED <<db, rtx, keyBuf, valueBuf>>

\* ---------------------------------------------------------------- transactions
\* Database::begin_write: redb admits one write transaction at a time
BeginWrite ==
    /\ ~wtx.open
    /\ wtx' = [open |-> TRUE, tables |-> db]
    /\ last' = Call("begin_write")
    /\ UNCHANGED <<db, rtx, keyBuf, valueBuf>>

\* Database::begin_read: R reads the tables committed at this moment
BeginRead ==
    /\ ~rtx.open
    /\ rtx' = [open |-> TRUE, tables |-> db]
    /\ last' = Call("begin_read")
    /\ UNCHANGED <<db, wtx, keyBuf, valueBuf>>

\* R goes out of scope
DropRead ==
    /\ rtx.open
    /\ rtx' = NoTx
    /\ last' = Call("drop_read")
    /\ UNCHANGED <<db, wtx, keyBuf, valueBuf>>

\* what commit() publishes
Committed(tables) == tables

\* (mutant) commit() consumes the transaction without committing it
Commit_NotForwarded ==
    /\ wtx.open
    /\ db' = db
    /\ wtx' = NoTx
    /\ last' = Call("commit")
    /\ UNCHANGED <<rtx, keyBuf, valueBuf>>

\* WriteTransaction::commit
Commit ==
    /\ wtx.open
    /\ db' = Committed(wtx.tables)
    /\ wtx' = NoTx
    /\ last' = Call("commit")
    /\ UNCHANGED <<rtx, keyBuf, valueBuf>>

\* (mutant) dropping a write transaction publishes its changes
Discarded_Flush(committed, tables) == tables

\* what is left of the storage file when a write transaction is dropped
Discarded(committed, tables) == committed

\* WriteTransaction dropped without commit()
DropWrite ==
    /\ wtx.open
    /\ db' = Discarded(db, wtx.tables)
    /\ wtx' = NoTx
    /\ last' = [Call("drop_write") EXCEPT
                    !.outcome = IF wtx.tables = db THEN "clean" ELSE "discarded"]
    /\ UNCHANGED <<rtx, keyBuf, valueBuf>>

\* WriteTransaction::open_table: creates the table when it does not exist
WOpenTable(n) ==
    /\ wtx.open
    /\ ~wtx.tables[n].exists
    /\ wtx' = [wtx EXCEPT !.tables[n].exists = TRUE]
    /\ last' = [Call("open_table") EXCEPT !.tbl = n]
    /\ UNCHANGED <<db, rtx, keyBuf, valueBuf>>

\* WriteTransaction::delete_table
WDeleteTable(n) ==
    /\ wtx.open
    /\ wtx' = [wtx EXCEPT !.tables[n] = NoTable]
    /\ last' = [Call("delete_table") EXCEPT !.tbl = n,
                    !.outcome = IF wtx.tables[n].exists THEN "true" ELSE "false"]
    /\ UNCHANGED <<db, rtx, keyBuf, valueBuf>>

\* Database::delete_table: look the name up in the table list; if it is
\* there, begin_write()?.as_raw().delete_table(table)? deletes it inside
\* a write transaction that is a temporary of that expression: it is
\* dropped at the end of the statement and commit() is never called.
DatabaseDeleteTable(n) ==
    /\ ~wtx.open
    /\ db' = IF db[n].exists THEN Discarded(db, [db EXCEPT ![n] = NoTable]) ELSE db
    /\ last' = [Call("database_delete_table") EXCEPT !.tbl = n,
                    !.outcome = IF db[n].exists THEN "true" ELSE "false"]
    /\ UNCHANGED <<wtx, rtx, keyBuf, valueBuf>>

\* ---------------------------------------------------------------- Table
WRows(n) == wtx.tables[n].rows

\* (mutant) a read-only table that reads the latest committed rows
RRows_Latest(n) == db[n].rows

RRows(n) == rtx.tables[n].rows

\* Table::insert through the write transaction
Insert(n, k, v, io) ==
    /\ wtx.open /\ wtx.tables[n].exists
    /\ LET r == TableInsert(WRows(n), k, v, keyBuf, valueBuf, io)
       IN /\ Cardinality(r.rows) <= MaxEntries
          /\ wtx' = [wtx EXCEPT !.tables[n].rows = r.rows]
          /\ keyBuf' = r.keyBuf
          /\ valueBuf' = r.valueBuf
          /\ last' = [Call("insert") EXCEPT !.tbl = n, !.k = k, !.v = v,
                          !.outcome = r.outcome, !.guard = r.guard]
    /\ UNCHANGED <<db, rtx>>

\* Table::get through the write transaction
Get(n, k, io) ==
    /\ wtx.open /\ wtx.tables[n].exists
    /\ LET r == TableGet(WRows(n), k, keyBuf, io)
       IN /\ keyBuf' = r.keyBuf
          /\ last' = [Call("get") EXCEPT !.tbl = n, !.k = k,
                          !.outcome = r.outcome, !.guard = r.guard]
    /\ UNCHANGED <<db, wtx, rtx, valueBuf>>

\* AccessGuard::value on the guard the last get returned (or on which
\* value() was called last): decodes the borrowed bytes, keeps the guard
ValueCall ==
    /\ last.op \in {"get", "value"}
    /\ last.guard # <<>>
    /\ last.uses < MaxValueCalls
    /\ last' = [Call("value") EXCEPT !.tbl = last.tbl, !.k = last.k,
                    !.guard = last.guard, !.uses = last.uses + 1,
                    !.outcome = IF GuardValue(last.guard).ok THEN "ok" ELSE "decode_err",
                    !.res = IF GuardValue(last.guard).ok
                            THEN <<GuardValue(last.guard).val>> ELSE <<>>]
    /\ UNCHANGED <<db, wtx, rtx, keyBuf, valueBuf>>

\* Table::remove through the write transaction
Remove(n, k, io) ==
    /\ wtx.open /\ wtx.tables[n].exists
    /\ LET r == TableRemove(WRows(n), k, keyBuf, io)
       IN /\ wtx' = [wtx EXCEPT !.tables[n].rows = r.rows]
          /\ keyBuf' = r.keyBuf
          /\ last' = [Call("remove") EXCEPT !.tbl = n, !.k = k,
                          !.outcome = r.outcome, !.guard = r.guard]
    /\ UNCHANGED <<db, rtx, valueBuf>>

\* Table::as_raw_mut().insert(kb, vb): bytes written below the typed layer
RawPut(n, kb, vb) ==
    /\ wtx.open /\ wtx.tables[n].exists
    /\ LET r == RawInsert(WRows(n), kb, vb)
       IN /\ Cardinality(r.rows) <= MaxEntries
          /\ wtx' = [wtx EXCEPT !.tables[n].rows = r.rows]
    /\ last' = [Call("raw_insert") EXCEPT !.tbl = n]
    /\ UNCHANGED <<db, rtx, keyBuf, valueBuf>>

\* Table::remove_where.  A panic unwinds through the caller: the table and
\* the write transaction are dropped on the way.
RemoveWhere(n, p) ==
    /\ wtx.open /\ wtx.tables[n].exists
    /\ LET r == TableRemoveWhere(WRows(n), p)
       IN /\ wtx' = IF r.outcome = "panic" THEN NoTx
                    ELSE [wtx EXCEPT !.tables[n].rows = r.rows]
          /\ last' = [Call("remove_where") EXCEPT !.tbl = n, !.pred = p,
                          !.outcome = r.outcome, !.res = r.res]
    /\ UNCHANGED <<db, rtx, keyBuf, valueBuf>>

\* ---------------------------------------------------------------- ReadOnlyTable
\* ReadOnlyTable::get through R
ROGet(n, k, io) ==
    /\ rtx.open /\ rtx.tables[n].exists
    /\ LET r == TableGet(RRows(n), k, keyBuf, io)
       IN /\ keyBuf' = r.keyBuf
          /\ last' = [Call("ro_get") EXCEPT !.tbl = n, !.k = k,
                          !.outcome = r.outcome, !.guard = r.guard]
    /\ UNCHANGED <<db, wtx, rtx, valueBuf>>

\* ReadOnlyTable::get_many through R
GetMany(n, start, end) ==
    /\ rtx.open /\ rtx.tables[n].exists
    /\ LET r == TableGetMany(RRows(n), start, end)
       IN last' = [Call("get_many") EXCEPT !.tbl = n, !.start = start, !.end = end,
                       !.outcome = IF r.ok THEN "ok" ELSE "err", !.res = r.res]
    /\ UNCHANGED <<db, wtx, rtx, keyBuf, valueBuf>>

\* ReadOnlyTable::get_many_where through R
GetManyWhere(n, start, end, p) ==
    /\ rtx.open /\ rtx.tables[n].exists
    /\ LET r == TableGetManyWhere(RRows(n), start, end, p)
       IN last' = [Call("get_many_where") EXCEPT !.tbl = n, !.start = start,
                       !.end = end, !.pred = p,
                       !.outcome = IF r.ok THEN "ok" ELSE "err",
                       !.res = r.res, !.calls = r.calls]
    /\ UNCHANGED <<db, wtx, rtx, keyBuf, valueBuf>>

\* ---------------------------------------------------------------- one-shot helpers
\* Writeable::insert: begin_write, open_table, insert, commit; an error
\* returns before commit() and the transaction is dropped
WriteableInsert(n, k, v, io) ==
    /\ ~wtx.open
    /\ LET opened == [db EXCEPT ![n].exists = TRUE]
           r == TableInsert(opened[n].rows, k, v, keyBuf, valueBuf, io)
           tables == [opened EXCEPT ![n].rows = r.rows]
       IN /\ Cardinality(r.rows) <= MaxEntries
          /\ db' = IF r.outcome = "ok" THEN Committed(tables) ELSE Discarded(db, tables)
          /\ keyBuf' = r.keyBuf
          /\ valueBuf' = r.valueBuf
          /\ last' = [Call("writeable_insert") EXCEPT !.tbl = n, !.k = k, !.v = v,
                          !.outcome = r.outcome]
    /\ UNCHANGED <<wtx, rtx>>

\* (mutant) extract commits as soon as the remove has succeeded, before
\* the removed value is decoded
ExtractTxn_CommitBeforeDecode(tables, n, k, kbuf, io) ==
    LET opened == [tables EXCEPT ![n].exists = TRUE]
        r == TableRemove(opened[n].rows, k, kbuf, io)
        decoded == r.guard = <<>> \/ GuardValue(r.guard).ok
    IN [outcome |-> IF r.outcome = "ok" /\ decoded THEN "ok" ELSE "err",
        guard |-> r.guard,
        res |-> IF r.outcome = "ok" /\ decoded /\ r.guard # <<>>
                THEN <<GuardValue(r.guard).val>> ELSE <<>>,
        db |-> IF r.outcome = "ok"
               THEN Committed([opened EXCEPT ![n].rows = r.rows])
               ELSE Discarded(tables, [opened EXCEPT ![n].rows = r.rows]),
        keyBuf |-> r.keyBuf]

\* the body of Writeable::extract: begin_write, open_table, remove(key)?,
\* value() of the removed guard with `?` on its decode error, and only
\* then commit(); an early return drops the transaction
ExtractTxn(tables, n, k, kbuf, io) ==
    LET opened == [tables EXCEPT ![n].exists = TRUE]
        r == TableRemove(opened[n].rows, k, kbuf, io)
        decoded == r.guard = <<>> \/ GuardValue(r.guard).ok
    IN [outcome |-> IF r.outcome = "ok" /\ decoded THEN "ok" ELSE "err",
        guard |-> r.guard,
        res |-> IF r.outcome = "ok" /\ decoded /\ r.guard # <<>>
                THEN <<GuardValue(r.guard).val>> ELSE <<>>,
        db |-> IF r.outcome = "ok" /\ decoded
               THEN Committed([opened EXCEPT ![n].rows = r.rows])
               ELSE Discarded(tables, [opened EXCEPT ![n].rows = r.rows]),
        keyBuf |-> r.keyBuf]

\* Writeable::extract; guard holds the bytes remove() handed back
WriteableExtract(n, k, io) ==
    /\ ~wtx.open
    /\ LET r == ExtractTxn(db, n, k, keyBuf, io)
       IN /\ db' = r.db
          /\ keyBuf' = r.keyBuf
          /\ last' = [Call("writeable_extract") EXCEPT !.tbl = n, !.k = k,
                          !.outcome = r.outcome, !.guard = r.guard, !.res = r.res]
    /\ UNCHANGED <<wtx, rtx, valueBuf>>

\* Writeable::extract_many_where: begin_write, open_table, remove_where(f)?,
\* commit; a panic inside remove_where unwinds past commit()
WriteableExtractManyWhere(n, p) ==
    /\ ~wtx.open
    /\ LET opened == [db EXCEPT ![n].exists = TRUE]
           r == TableRemoveWhere(opened[n].rows, p)
           tables == [opened EXCEPT ![n].rows = r.rows]
       IN /\ db' = IF r.outcome = "ok" THEN Committed(tables) ELSE Discarded(db, tables)
          /\ last' = [Call("writeable_extract_many_where") EXCEPT !.tbl = n,
                          !.pred = p, !.outcome = r.outcome, !.res = r.res]
    /\ UNCHANGED <<wtx, rtx, keyBuf, valueBuf>>

\* Readable::get on the committed tables: begin_read, open_table, get,
\* value(); res is the Option<V> (<<>> = None)
ReadableGet(tables, n, k, kbuf) ==
    IF ~tables[n].exists THEN [outcome |-> "err", res |-> <<>>]
    ELSE LET g == TableGet(tables[n].rows, k, kbuf, TRUE).guard
         IN IF g = <<>> THEN [outcome |-> "ok", res |-> <<>>]
            ELSE IF GuardValue(g).ok THEN [outcome |-> "ok", res |-> <<GuardValue(g).val>>]
            ELSE [outcome |-> "err", res |-> <<>>]

\* ---------------------------------------------------------------- re-entrant encode
\* get_mut(buf) in with_encode_key_buf: the UnsafeCell hands out a &mut to
\* the buffer whatever the number of &mut already live
CheckoutKeyBuf(held) == [granted |-> TRUE, held |-> held + 1]

\* Table::get(key) where key's Encode impl, having written the first j
\* bytes of its encoding, calls Table::get(k2) on the same thread.  Two
\* &mut to ENCODE_KEY are then live, which is undefined behaviour: `stale`
\* chooses between the build in which the outer call sees the nested
\* call's writes to the buffer and the one in which it does not.  A panic
\* unwinds the thread: its transaction and its buffers go with it.
GetReentrant(n, k, k2, j, stale) ==
    /\ wtx.open /\ wtx.tables[n].exists
    /\ j \in 0 .. Len(Encode(k))
    /\ LET outer == CheckoutKeyBuf(0)
           pre == keyBuf \o SubSeq(Encode(k), 1, j)
           inner == CheckoutKeyBuf(outer.held)
           ir == TableGet(WRows(n), k2, pre, TRUE)
           seen == (IF stale THEN pre ELSE ir.keyBuf)
                       \o SubSeq(Encode(k), j + 1, Len(Encode(k)))
           size == Len(Encode(k))
           oob == size > Len(seen)
       IN /\ keyBuf' = IF ~inner.granted \/ oob THEN <<>> ELSE ClearKeyBuf(seen)
          /\ last' = [Call("get_reentrant") EXCEPT !.tbl = n, !.k = k, !.v = k2,
                          !.nested = TRUE,
                          !.aliased = inner.granted /\ inner.held > 1,
                          !.outcome = IF ~inner.granted \/ oob THEN "panic" ELSE "ok",
                          !.guard = IF ~inner.granted \/ oob THEN <<>>
                                    ELSE RawGet(WRows(n), Slice(seen, size))]
          /\ wtx' = IF ~inner.granted \/ oob THEN NoTx ELSE wtx
    /\ UNCHANGED <<db, rtx, valueBuf>>

\* ---------------------------------------------------------------- specifications
\* the typed operations under transactions
Next ==
    \/ BeginWrite
    \/ BeginRead
    \/ DropRead
    \/ Commit
    \/ DropWrite
    \/ \E n \in TableNames : WOpenTable(n)
    \/ \E n \in TableNames : WDeleteTable(n)
    \/ \E n \in TableNames : DatabaseDeleteTable(n)
    \/ \E n \in TableNames, k \in Keys, v \in Vals, io \in BOOLEAN : Insert(n, k, v, io)
    \/ \E n \in TableNames, k \in Keys, io \in BOOLEAN : Get(n, k, io)
    \/ \E n \in TableNames, k \in Keys, io \in BOOLEAN : Remove(n, k, io)
    \/ \E n \in TableNames, p \in Preds : RemoveWhere(n, p)
    \/ \E n \in TableNames, k \in Keys, io \in BOOLEAN : ROGet(n, k, io)
    \/ \E n \in TableNames : GetMany(n, -1, -1)
    \/ \E n \in TableNames, k \in Keys, v \in Vals, io \in BOOLEAN :
          WriteableInsert(n, k, v, io)
    \/ \E n \in TableNames, k \in Keys, k2 \in Keys, j \in 0 .. 5, stale \in BOOLEAN :
          GetReentrant(n, k, k2, j, stale)

Spec == Init /\ [][Next]_vars

\* every table of at most MaxEntries rows over the typed and the raw bytes
StoredKeys == {Encode(k) : k \in Keys} \cup RawKeys
StoredVals == {Encode(v) : v \in Vals} \cup RawVals
StoredTables ==
    {rows \in SUBSET (StoredKeys \X StoredVals) :
        /\ Cardinality(rows) <= MaxEntries
        /\ \A a \in rows, b \in rows : a[1] = b[1] => a = b}

\* a storage file left by earlier transactions, typed or raw
InitStored ==
    /\ \E rows \in StoredTables :
          db = [n \in TableNames |-> [exists |-> TRUE, rows |-> rows]]
    /\ wtx = NoTx
    /\ rtx = NoTx
    /\ keyBuf = <<>>
    /\ valueBuf = <<>>
    /\ last = Call("new")

\* the stored tables the iterating reads are run over: one typed value
\* (three bytes long) and the raw one
ScanVals == {Encode(251)} \cup RawVals
ScanPreds == {"all", "small_key", "large_key"}
InitScan ==
    /\ \E rows \in {t \in StoredTables : \A r \in t : r[2] \in ScanVals} :
          db = [n \in TableNames |-> [exists |-> TRUE, rows |-> rows]]
    /\ wtx = NoTx
    /\ rtx = NoTx
    /\ keyBuf = <<>>
    /\ valueBuf = <<>>
    /\ last = Call("new")

\* the iterating reads of ReadOnlyTable over any stored table
ReadNext ==
    \/ BeginRead
    \/ DropRead
    \/ \E n \in TableNames, s \in Positions, e \in Positions : GetMany(n, s, e)
    \/ \E n \in TableNames, s \in Positions, e \in Positions, p \in ScanPreds :
          GetManyWhere(n, s, e, p)

ReadSpec == InitScan /\ [][ReadNext]_vars

\* bulk extraction, raw writes and point reads over any stored table
ExtractNext ==
    \/ BeginWrite
    \/ Commit
    \/ DropWrite
    \/ \E n \in TableNames, kb \in StoredKeys, vb \in RawVals : RawPut(n, kb, vb)
    \/ \E n \in TableNames, p \in Preds : RemoveWhere(n, p)
    \/ \E n \in TableNames, k \in Keys, io \in BOOLEAN : Get(n, k, io)
    \/ ValueCall
    \/ \E created \in BOOLEAN : DatabaseNew(created)
    \/ \E n \in TableNames, k \in Keys, v \in Vals, io \in BOOLEAN :
          WriteableInsert(n, k, v, io)
    \/ \E n \in TableNames, k \in Keys, io \in BOOLEAN : WriteableExtract(n, k, io)
    \/ \E n \in TableNames, p \in Preds : WriteableExtractManyWhere(n, p)

ExtractSpec == InitStored /\ [][ExtractNext]_vars

\* ---------------------------------------------------------------- properties
Some(x) == [ok |-> TRUE, val |-> x]
DecodedPair(r) == <<Decode(r[1]).val, Decode(r[2]).val>>
Decodes(r) == Decode(r[1]).ok /\ Decode(r[2]).ok
AllDecode(rows) == \A r \in rows : Decodes(r)
LastOk(op) == last.op = op /\ last.outcome = "ok"

\* C1: after insert(k, v) succeeds, get(k) in the same write transaction
\* returns a guard whose value() is v; and after the one-shot insert has
\* committed, a get(k) in a read transaction begun afterwards yields v.
C1_RoundTrip ==
    /\ LastOk("insert") =>
          LET g == TableGet(wtx.tables[last.tbl].rows, last.k, keyBuf, TRUE).guard
          IN g # <<>> /\ GuardValue(g) = Some(last.v)
    /\ LastOk("writeable_insert") =>
          ReadableGet(db, last.tbl, last.k, keyBuf) = [outcome |-> "ok", res |-> <<last.v>>]

C1_Witness ==
    /\ LastOk("insert")
    /\ last.k = 300
    /\ last.guard # <<>>
    /\ Cardinality(wtx.tables[last.tbl].rows) = 2

\* C2: insert(k, v1) followed by insert(k, v2) in the same write
\* transaction: the second insert returns a guard decoding to v1, a get(k)
\* after it decodes to v2, and the table holds exactly one entry for k.
C2_Overwrite ==
    [][ ( /\ LastOk("insert") /\ wtx.open
          /\ last'.op = "insert" /\ last'.outcome = "ok" /\ wtx'.open
          /\ last'.k = last.k /\ last'.tbl = last.tbl )
        => LET rows2 == wtx'.tables[last'.tbl].rows
               g == TableGet(rows2, last'.k, keyBuf', TRUE).guard
           IN /\ last'.guard # <<>>
              /\ GuardValue(last'.guard) = Some(last.v)
              /\ g # <<>> /\ GuardValue(g) = Some(last'.v)
              /\ Cardinality({r \in rows2 : r[1] = Encode(last'.k)}) = 1 ]_vars

C2_Witness ==
    /\ LastOk("insert")
    /\ last.guard # <<>>
    /\ GuardValue(last.guard).val # last.v
    /\ RawGet(db[last.tbl].rows, Encode(last.k)) = <<>>

\* C3: remove(k) on a present key returns a guard over the value stored
\* for k and get(k) is absent afterwards; remove(k) on an absent key
\* returns absent and leaves every entry of the table unchanged.
C3_Deletion ==
    [][ (last'.op = "remove" /\ last'.outcome = "ok" /\ wtx.open)
        => LET before == RawGet(wtx.tables[last'.tbl].rows, Encode(last'.k))
               rows2 == wtx'.tables[last'.tbl].rows
           IN IF before # <<>>
              THEN /\ last'.guard = before
                   /\ GuardValue(last'.guard) = Decode(before[1])
                   /\ TableGet(rows2, last'.k, keyBuf', TRUE).guard = <<>>
              ELSE /\ last'.guard = <<>>
                   /\ wtx'.tables = wtx.tables ]_vars

C3_Witness ==
    /\ LastOk("remove")
    /\ last.guard # <<>>
    /\ wtx.tables[last.tbl].rows # {}

Min(a, b) == IF a < b THEN a ELSE b
Max(a, b) == IF a > b THEN a ELSE b

\* the window [start, end) over n entries: first position and size
WindowFrom(start) == IF start < 0 THEN 0 ELSE start
WindowSize(start, end, n) ==
    Max(0, (IF end < 0 THEN n ELSE Min(end, n)) - WindowFrom(start))

\* C4: over a table of n entries that all decode, get_many(start, end)
\* returns exactly max(0, min(end, n) - start) entries, the ones at
\* ordinal positions [start, end) of the full iteration, in that order.
C4_Window ==
    (last.op = "get_many" /\ AllDecode(rtx.tables[last.tbl].rows)) =>
        LET it == RawIter(rtx.tables[last.tbl].rows)
            cnt == WindowSize(last.start, last.end, Len(it))
        IN /\ last.outcome = "ok"
           /\ Len(last.res) = cnt
           /\ \A i \in 1 .. cnt :
                 last.res[i] = DecodedPair(it[WindowFrom(last.start) + i])

C4_Witness ==
    /\ last.op = "get_many"
    /\ AllDecode(rtx.tables[last.tbl].rows)
    /\ Cardinality(rtx.tables[last.tbl].rows) = 3
    /\ last.start = 1 /\ last.end = 2
    /\ Len(last.res) = 1

\* C5: over a table whose entries all decode, remove_where(p) leaves
\* exactly the entries p rejected, unchanged, and returns exactly the
\* entries p accepted, once each, in iteration order.
C5_Extraction ==
    [][ ( /\ last'.op = "remove_where" /\ wtx.open
          /\ AllDecode(wtx.tables[last'.tbl].rows) )
        => LET rows == wtx.tables[last'.tbl].rows
               Hit(r) == Pred(last'.pred, DecodedPair(r)[1], DecodedPair(r)[2])
               sel == SelectSeq(RawIter(rows), Hit)
           IN /\ last'.outcome = "ok"
              /\ wtx'.open
              /\ wtx'.tables[last'.tbl].rows = {r \in rows : ~Hit(r)}
              /\ Len(last'.res) = Len(sel)
              /\ \A i \in 1 .. Len(sel) : last'.res[i] = <<DecodedPair(sel[i])>> ]_vars

C5_Witness ==
    /\ LastOk("remove_where")
    /\ Len(last.res) = 2
    /\ Cardinality(wtx.tables[last.tbl].rows) = 1

\* C7: remove_where over a table holding an entry that does not decode
\* completes and returns a result: it does not panic.
C7_NoPanic == last.op = "remove_where" => last.outcome = "ok"

\* C8: when get_many or get_many_where meets an entry in its window whose
\* key or value does not decode, the call returns an error, no entry is
\* returned, and the table is as it was.
C8_AllOrNothing ==
    (last.op \in {"get_many", "get_many_where"}) =>
        LET it == RawIter(rtx.tables[last.tbl].rows)
            from == WindowFrom(last.start)
            cnt == WindowSize(last.start, last.end, Len(it))
        IN /\ (\E i \in 1 .. cnt : ~Decodes(it[from + i]))
                 => (last.outcome = "err" /\ last.res = <<>>)
           /\ rtx.tables[last.tbl] = db[last.tbl]

C8_Witness ==
    /\ last.op = "get_many_where"
    /\ last.outcome = "err"
    /\ Len(last.calls) >= 1

\* C6: what R returns from get and get_many is the table as committed when
\* R was begun: R's view is the committed tables at begin_read, no later
\* step (a commit included) changes it while R is open, and every read
\* through R answers from it.
C6_Snapshot ==
    /\ [](LastOk("ro_get") =>
            last.guard = RawGet(rtx.tables[last.tbl].rows, Encode(last.k)))
    /\ [](LastOk("get_many") =>
            LET it == RawIter(rtx.tables[last.tbl].rows)
            IN /\ Len(last.res) = Len(it)
               /\ \A i \in 1 .. Len(it) : last.res[i] = DecodedPair(it[i]))
    /\ [][(~rtx.open /\ rtx'.open) => rtx'.tables = db]_vars
    /\ [][(rtx.open /\ rtx'.open) => rtx'.tables = rtx.tables]_vars

C6_Witness ==
    /\ rtx.open
    /\ LastOk("ro_get")
    /\ last.guard # <<>>
    /\ RawGet(db[last.tbl].rows, Encode(last.k)) # last.guard

\* C9: a write transaction dropped without commit() leaves the committed
\* tables as they were; nothing but a commit changes them; and a
\* transaction begun afterwards starts from the committed tables.
C9_DropDiscards ==
    /\ [][(last'.op = "drop_write" => db' = db)
          /\ (db' # db => last'.op \in {"commit", "writeable_insert"})]_vars
    /\ [](last.op = "begin_read" => rtx.tables = db)
    /\ [](last.op = "begin_write" => wtx.tables = db)

C9_Witness ==
    /\ last.op = "drop_write"
    /\ last.outcome = "discarded"
    /\ db[last.tbl].exists

\* C10: a key buffer requested again while it is handed out is refused by
\* a panic: no second mutable access to the buffer is handed out.
C10_NestedCheckoutAborts == last.nested => (last.outcome = "panic" /\ ~last.aliased)

\* the rows at the positions of the window [start, end), in iteration order
WindowRows(rows, start, end) ==
    LET it == RawIter(rows)
    IN [i \in 1 .. WindowSize(start, end, Len(it)) |-> it[WindowFrom(start) + i]]

\* C11: get_many_where(start, end, p) returns the entries at positions
\* [start, end) of the full iteration that p accepts, in iteration order;
\* the positions count every entry, accepted or not, and p is invoked on
\* the entries of the window and on no other.
C11_WhereWindow ==
    LET w == WindowRows(rtx.tables[last.tbl].rows, last.start, last.end)
        Hit(r) == Pred(last.pred, DecodedPair(r)[1], DecodedPair(r)[2])
        sel == SelectSeq(w, Hit)
    IN (last.op = "get_many_where" /\ \A i \in 1 .. Len(w) : Decodes(w[i])) =>
          /\ last.outcome = "ok"
          /\ last.res = [i \in 1 .. Len(sel) |-> DecodedPair(sel[i])]
          /\ last.calls = [i \in 1 .. Len(w) |-> DecodedPair(w[i])]

C11_Witness ==
    /\ LastOk("get_many_where")
    /\ last.pred = "large_key"
    /\ last.start = 1 /\ last.end = 3
    /\ Len(last.calls) = 2
    /\ Len(last.res) = 1

\* an entry below position start does not decode
BadBelowStart ==
    LET it == RawIter(rtx.tables[last.tbl].rows)
    IN \E i \in 1 .. Len(it) : i <= last.start /\ ~Decodes(it[i])

\* C12 (as claimed): an entry at a position below start whose key or value
\* does not decode makes get_many and get_many_where return an error.
C12_DecodesBelowStart ==
    (last.op \in {"get_many", "get_many_where"} /\ BadBelowStart) => last.outcome = "err"

\* C12 (amended): get_many and get_many_where step over the entries below
\* start without decoding them and decode the entries of the window only:
\* the call returns an error exactly when an entry at a position in
\* [start, end) does not decode.
C12_DecodesWindowOnly ==
    LET w == WindowRows(rtx.tables[last.tbl].rows, last.start, last.end)
    IN (last.op \in {"get_many", "get_many_where"}) =>
          (last.outcome = "err" <=> \E i \in 1 .. Len(w) : ~Decodes(w[i]))

C12_Witness ==
    /\ LastOk("get_many")
    /\ BadBelowStart
    /\ Len(last.res) >= 1

\* what get(k) finds in rows
Seen(rows, k) == TableGet(rows, k, <<>>, TRUE).guard

\* C13: a mutation made in a write transaction is seen by the reads made
\* later in that transaction (every get answers from the tables as the
\* insert, remove or remove_where before it left them), commit() publishes
\* the transaction's tables, and a read or write transaction begun after
\* the commit starts from them.
C13_CommitVisibility ==
    /\ [](LastOk("get") =>
             last.guard = RawGet(wtx.tables[last.tbl].rows, Encode(last.k)))
    /\ [][ (wtx.open /\ wtx'.open /\ last'.outcome = "ok"
            /\ last'.op \in {"insert", "remove", "remove_where"})
           => LET old == wtx.tables[last'.tbl].rows
                  new == wtx'.tables[last'.tbl].rows
              IN \A k \in Keys :
                    Seen(new, k) =
                       CASE last'.op = "insert" /\ k = last'.k -> <<Encode(last'.v)>>
                         [] last'.op = "remove" /\ k = last'.k -> <<>>
                         [] last'.op = "remove_where" /\ Seen(old, k) # <<>>
                               /\ Pred(last'.pred, k, Decode(Seen(old, k)[1]).val) -> <<>>
                         [] OTHER -> Seen(old, k) ]_vars
    /\ [][last'.op = "commit" => db' = wtx.tables]_vars
    /\ [][(~rtx.open /\ rtx'.open) => rtx'.tables = db]_vars
    /\ [][(~wtx.open /\ wtx'.open) => wtx'.tables = db]_vars

C13_Witness ==
    /\ LastOk("ro_get")
    /\ last.guard # <<>>
    /\ ~wtx.open
    /\ rtx.tables = db

\* C14: get(k) on a present key whose value bytes do not decode succeeds
\* and returns a guard over those bytes (get fails on a storage error
\* only); the decode error shows when value() is called, and each call of
\* value() on the guard gives the outcome of decoding the same bytes.
C14_DeferredDecode ==
    LET stored == RawGet(wtx.tables[last.tbl].rows, Encode(last.k))
    IN /\ last.op = "get" =>
             /\ last.outcome \in {"ok", "err"}
             /\ last.outcome = "ok" => last.guard = stored
       /\ last.op = "value" =>
             /\ last.guard = stored /\ stored # <<>>
             /\ last.outcome = IF Decode(stored[1]).ok THEN "ok" ELSE "decode_err"
             /\ last.outcome = "ok" => last.res = <<Decode(stored[1]).val>>

C14_Witness ==
    /\ last.op = "value"
    /\ last.outcome = "decode_err"
    /\ last.uses = 2

\* C15: whatever the inserts and removes made through open_table's tables
\* and their order, get_many returns the entries in strictly ascending
\* byte-lexicographic order of their encoded keys.
C15_Ordering ==
    LastOk("get_many") =>
        /\ Len(last.res) = Cardinality(rtx.tables[last.tbl].rows)
        /\ \A i \in 1 .. Len(last.res), j \in 1 .. Len(last.res) :
              i < j => LexLess(Encode(last.res[i][1]), Encode(last.res[j][1]))

C15_Witness ==
    /\ LastOk("get_many")
    /\ Len(last.res) = 2
    /\ last.res[1][1] = 2 /\ last.res[2][1] = 300

\* C16: an operation that meets a storage error or a decode error returns
\* an error: a panic occurs only on a re-entrant use of a scratch buffer
\* (or an encode failure, which the integer keys and values cannot have).
C16_NoPanicOnFailure == last.outcome = "panic" => last.nested

\* C17: between table operations the key buffer and the value buffer are
\* both empty, also after a get, insert or remove that returned a storage
\* error; so each get, insert and remove hands the raw table exactly the
\* encoding of its key (and value): get answers with the bytes stored
\* under Encode(k), insert stores the row <<Encode(k), Encode(v)>> and
\* returns the bytes it replaced, remove deletes the row under Encode(k).
C17_ScratchBuffers ==
    /\ [](keyBuf = <<>> /\ valueBuf = <<>>)
    /\ [][ (wtx.open /\ wtx'.open /\ last'.op \in {"get", "insert", "remove"})
           => LET rows == wtx.tables[last'.tbl].rows
                  rows2 == wtx'.tables[last'.tbl].rows
                  kb == Encode(last'.k)
                  vb == Encode(last'.v)
              IN IF last'.outcome # "ok" THEN rows2 = rows /\ last'.guard = <<>>
                 ELSE /\ last'.guard = RawGet(rows, kb)
                      /\ last'.op = "get" => rows2 = rows
                      /\ last'.op = "insert" =>
                            rows2 = {r \in rows : r[1] # kb} \cup {<<kb, vb>>}
                      /\ last'.op = "remove" =>
                            rows2 = {r \in rows : r[1] # kb} ]_vars

C17_Witness ==
    /\ last.op = "insert" /\ last.outcome = "err"
    /\ wtx.open /\ Cardinality(wtx.tables[last.tbl].rows) = 2
    /\ keyBuf = <<>> /\ valueBuf = <<>>

\* C18: Database::delete_table(name) returns false and changes nothing
\* when no table of that name exists; when it returns true the table is
\* gone from the committed state that later transactions start from.
C18_DeleteTable ==
    [][ last'.op = "database_delete_table"
        => IF last'.outcome = "false"
           THEN ~db[last'.tbl].exists /\ db' = db
           ELSE ~db'[last'.tbl].exists /\ db'[last'.tbl].rows = {} ]_vars

\* C19: Writeable::insert, Writeable::extract and
\* Writeable::extract_many_where each run in a write transaction of their
\* own and commit only when every step succeeded: a call that does not
\* return Ok leaves the committed tables as they were, a call that returns
\* Ok has committed exactly its change; in particular extract on an entry
\* whose value does not decode returns an error and the entry is still
\* there.
C19_OneShotAtomic ==
    [][ (last'.op \in {"writeable_insert", "writeable_extract",
                       "writeable_extract_many_where"})
        => LET rows == db[last'.tbl].rows
               rows2 == db'[last'.tbl].rows
               kb == Encode(last'.k)
           IN /\ ~wtx.open /\ wtx' = wtx
              /\ last'.outcome # "ok" => db' = db
              /\ (last'.op = "writeable_insert" /\ last'.outcome = "ok") =>
                    rows2 = {r \in rows : r[1] # kb} \cup {<<kb, Encode(last'.v)>>}
              /\ last'.op = "writeable_extract" =>
                    IF RawGet(rows, kb) # <<>> /\ ~Decode(RawGet(rows, kb)[1]).ok
                    THEN last'.outcome = "err" /\ RawGet(rows2, kb) = RawGet(rows, kb)
                    ELSE last'.outcome = "ok" =>
                            /\ rows2 = {r \in rows : r[1] # kb}
                            /\ last'.res = IF RawGet(rows, kb) = <<>> THEN <<>>
                                           ELSE <<Decode(RawGet(rows, kb)[1]).val>>
              /\ (last'.op = "writeable_extract_many_where" /\ last'.outcome = "ok") =>
                    /\ rows2 \subseteq rows
                    /\ Len(last'.res) = Cardinality(rows \ rows2)
                    /\ \A r \in rows :
                          r \in rows2 <=> ~Pred(last'.pred, Decode(r[1]).val, Decode(r[2]).val) ]_vars

C19_Witness ==
    /\ last.op = "writeable_extract" /\ last.outcome = "err"
    /\ last.guard = <<BadBytes>>
    /\ RawGet(db[last.tbl].rows, Encode(last.k)) = <<BadBytes>>

====
